---------------------------- MODULE Spec2Model ----------------------------
(***************************************************************************)
(* The acquisition loop of main.py (Mission Spacelab, team 'Twin Stars'). *)
(*                                                                         *)
(* The script is one sequential control path.  pc is the position of that *)
(* path inside the while loop of lines 96-161; every statement group that *)
(* can raise on its own (sampling, row append, camera capture, file-size  *)
(* lookup) is one step with a normal and an exceptional outcome.  Time is *)
(* counted in ticks of the wall clock; the sensor payload of a row is not *)
(* read by any control decision and is left out of the row.               *)
(***************************************************************************)
EXTENDS Integers, Sequences, FiniteSets, TLC

\* ------------------------------------------------------------------------
\* Program constants (scaled to ticks and to byte units)
\* ------------------------------------------------------------------------

\* timedelta(minutes=minutes_to_run), in ticks
minutes_to_run == 5

\* seconds between sampling, in ticks
sampling_delta_secs == 2

\* storage ceiling for the photos, in byte units
max_photos_size == 3

\* start_time = datetime.now(): the origin of the clock
start_time == 0

\* ------------------------------------------------------------------------
\* Bounds of the model
\* ------------------------------------------------------------------------

\* the wall clock drifts (processing time) up to this tick
MaxClock == 6

\* a photo file is 1..MaxPhoto byte units
MaxPhoto == 2

\* data rows the sink accepts before every further append fails
MaxRows == 4

\* the event log and the pass count are counted up to this many
MaxCount == 4

PhotoSizes == 1..MaxPhoto

LogKinds == {"photo", "full", "error", "ended"}

VARIABLES
    pc,           \* position of the control path
    counter,      \* line 89
    photos_size,  \* line 72
    now_time,     \* line 93
    clock,        \* datetime.now(), the wall clock
    csv,          \* content of data.csv: header row, then data rows
    files,        \* photo files on disk: counter -> st_size
    log,          \* events.log: number of lines of each kind
    exc,          \* the exception being handled, "none" outside a handler
    passes,       \* history: passes through the loop body begun so far
    snap,         \* history: clock, data rows and photos_size at the start
                  \*          of the current pass
    lastCredit,   \* history: size of the photo credited last
    drift,        \* history: ticks that were not slept
    lateFails,    \* history: passes that raised after their row was appended
    angle,        \* the argument of convert, in 1/100 arc-second
    exif          \* the value returned by convert, <<>> before the call

vars == <<pc, counter, photos_size, now_time, clock, csv, files, log, exc,
          passes, snap, lastCredit, drift, lateFails, angle, exif>>

hist == <<passes, snap, lastCredit, drift>>

\* the state of the geotag conversion
geo == <<angle, exif>>

\* what the steps of the loop leave alone but for a late failure
aux == <<lateFails, angle, exif>>

\* ------------------------------------------------------------------------
\* Helpers
\* ------------------------------------------------------------------------

header == [kind |-> "header", Counter |-> 0]

Row(c) == [kind |-> "data", Counter |-> c]

\* the data rows of the sink, in file order
DataRows == SubSeq(csv, 2, Len(csv))

\* a count that stops at MaxCount
Bump(n) == IF n < MaxCount THEN n + 1 ELSE n

\* logger.info / logger.error: one more line of the kind
LogLine(kind) == [log EXCEPT ![kind] = Bump(log[kind])]

\* Path(image_file).stat().st_size for photo_<c>.jpg
st_size(c) == files[c]

\* camera.capture(image): the file at the path is (over)written
WriteFile(c, s) == (c :> s) @@ files

\* except Exception as e: control moves to the handler
Raise(kind) == /\ exc' = kind
               /\ pc' = "except"

\* the while condition of line 96
InTime == now_time < start_time + minutes_to_run

\* the capture condition of line 145
HasSpaceLax == photos_size <= max_photos_size

HasSpace == photos_size < max_photos_size

\* the new total of line 149
CreditedEstimate(c) == photos_size + MaxPhoto

Credited(c) == photos_size + st_size(c)

\* the wake-up time of sleep(sampling_delta_secs)
WakeUpShort == clock + 1

WakeUp == clock + sampling_delta_secs

\* ------------------------------------------------------------------------
\* Initial state: lines 60-93 have run
\* ------------------------------------------------------------------------

LoopInit ==
    /\ pc = "while"
    /\ counter = 1
    /\ photos_size = 0
    /\ now_time = start_time
    /\ clock = start_time
    /\ csv = <<header>>
    /\ files = <<>>
    /\ log = [k \in LogKinds |-> 0]
    /\ exc = "none"
    /\ passes = 0
    /\ snap = [clock |-> start_time, rows |-> 0, size |-> 0]
    /\ lastCredit = 0
    /\ drift = 0
    /\ lateFails = 0

Init ==
    /\ LoopInit
    /\ angle = 0
    /\ exif = <<>>

\* ------------------------------------------------------------------------
\* The steps of the control path
\* ------------------------------------------------------------------------

\* line 96, condition true: a pass through the loop body begins
WhileEnter ==
    /\ pc = "while"
    /\ InTime
    /\ pc' = "sample"
    /\ passes' = Bump(passes)
    /\ snap' = [clock |-> clock, rows |-> Len(DataRows), size |-> photos_size]
    /\ UNCHANGED <<counter, photos_size, now_time, clock, csv, files, log,
                   exc, lastCredit, drift>>
    /\ UNCHANGED aux

\* line 96, condition false: the loop is left
WhileExit ==
    /\ pc = "while"
    /\ ~InTime
    /\ pc' = "final"
    /\ UNCHANGED <<counter, photos_size, now_time, clock, csv, files, log,
                   exc, hist>>
    /\ UNCHANGED aux

\* lines 99-123: sensor and position reads succeed
SampleOK ==
    /\ pc = "sample"
    /\ pc' = "append"
    /\ UNCHANGED <<counter, photos_size, now_time, clock, csv, files, log,
                   exc, hist>>
    /\ UNCHANGED aux

\* lines 99-123: a sensor or position read raises
SampleFail ==
    /\ pc = "sample"
    /\ Raise("sample")
    /\ UNCHANGED <<counter, photos_size, now_time, clock, csv, files, log,
                   hist>>
    /\ UNCHANGED aux

\* lines 125-142: the row is assembled and appended to the sink
AppendOK ==
    /\ pc = "append"
    /\ Len(DataRows) < MaxRows
    /\ csv' = Append(csv, Row(counter))
    /\ pc' = "decide"
    /\ UNCHANGED <<counter, photos_size, now_time, clock, files, log, exc,
                   hist>>
    /\ UNCHANGED aux

\* line 142: the sink is unwritable, add_csv_data raises
AppendFail ==
    /\ pc = "append"
    /\ Raise("append")
    /\ UNCHANGED <<counter, photos_size, now_time, clock, csv, files, log,
                   hist>>
    /\ UNCHANGED aux

\* lines 145-146 without the test of the budget
IfSpaceUnchecked ==
    /\ pc = "decide"
    /\ pc' = "capture"
    /\ UNCHANGED <<counter, photos_size, now_time, clock, csv, files, log,
                   exc, hist>>
    /\ UNCHANGED aux

\* lines 145-146: there is space left, a capture is attempted
IfSpace ==
    /\ pc = "decide"
    /\ HasSpace
    /\ pc' = "capture"
    /\ UNCHANGED <<counter, photos_size, now_time, clock, csv, files, log,
                   exc, hist>>
    /\ UNCHANGED aux

\* lines 152-155 with the counter update left out
ElseFullNoUpdate ==
    /\ pc = "decide"
    /\ ~HasSpace
    /\ log' = LogLine("full")
    /\ pc' = "sleep"
    /\ UNCHANGED <<counter, photos_size, now_time, clock, csv, files, exc,
                   hist>>
    /\ UNCHANGED aux

\* lines 152-153: the budget is used up, the capture is skipped
ElseFull ==
    /\ pc = "decide"
    /\ ~HasSpace
    /\ log' = LogLine("full")
    /\ pc' = "update"
    /\ UNCHANGED <<counter, photos_size, now_time, clock, csv, files, exc,
                   hist>>
    /\ UNCHANGED aux

\* line 147: capture(cam, image_file) writes photo_<counter>.jpg
CaptureOK ==
    /\ pc = "capture"
    /\ \E s \in PhotoSizes : files' = WriteFile(counter, s)
    /\ pc' = "stat"
    /\ UNCHANGED <<counter, photos_size, now_time, clock, csv, log, exc,
                   hist>>
    /\ UNCHANGED aux

\* line 147: capture raises, before or after (part of) the file is written
CaptureFail ==
    /\ pc = "capture"
    /\ \/ UNCHANGED files
       \/ \E s \in PhotoSizes : files' = WriteFile(counter, s)
    /\ Raise("capture")
    /\ UNCHANGED <<counter, photos_size, now_time, clock, csv, log, hist>>
    /\ lateFails' = lateFails + 1
    /\ UNCHANGED geo

\* lines 149-151: the file size is added to the total and logged
StatOK ==
    /\ pc = "stat"
    /\ photos_size' = Credited(counter)
    /\ lastCredit' = st_size(counter)
    /\ log' = LogLine("photo")
    /\ pc' = "update"
    /\ UNCHANGED <<counter, now_time, clock, csv, files, exc, passes, snap,
                   drift>>
    /\ UNCHANGED aux

\* line 149: the size lookup raises
StatFail ==
    /\ pc = "stat"
    /\ Raise("stat")
    /\ UNCHANGED <<counter, photos_size, now_time, clock, csv, files, log,
                   hist>>
    /\ lateFails' = lateFails + 1
    /\ UNCHANGED geo

\* line 155 adding 2
UpdateCounterTwice ==
    /\ pc = "update"
    /\ counter' = counter + 2
    /\ pc' = "sleep"
    /\ UNCHANGED <<photos_size, now_time, clock, csv, files, log, exc, hist>>
    /\ UNCHANGED aux

\* line 155
UpdateCounter ==
    /\ pc = "update"
    /\ counter' = counter + 1
    /\ pc' = "sleep"
    /\ UNCHANGED <<photos_size, now_time, clock, csv, files, log, exc, hist>>
    /\ UNCHANGED aux

\* line 157: the control path is suspended for the sampling interval
Sleep ==
    /\ pc = "sleep"
    /\ clock' = WakeUp
    /\ pc' = "refresh"
    /\ UNCHANGED <<counter, photos_size, now_time, csv, files, log, exc,
                   hist>>
    /\ UNCHANGED aux

\* line 159
RefreshNow ==
    /\ pc = "refresh"
    /\ now_time' = clock
    /\ pc' = "while"
    /\ UNCHANGED <<counter, photos_size, clock, csv, files, log, exc, hist>>
    /\ UNCHANGED aux

\* lines 160-161 with the current time refreshed in the handler
ExceptRefresh ==
    /\ pc = "except"
    /\ log' = LogLine("error")
    /\ exc' = "none"
    /\ now_time' = clock
    /\ pc' = "while"
    /\ UNCHANGED <<counter, photos_size, clock, csv, files, hist>>
    /\ UNCHANGED aux

\* lines 160-161 with the counter advanced in the handler
ExceptAdvance ==
    /\ pc = "except"
    /\ log' = LogLine("error")
    /\ exc' = "none"
    /\ counter' = counter + 1
    /\ pc' = "while"
    /\ UNCHANGED <<photos_size, now_time, clock, csv, files, hist>>
    /\ UNCHANGED aux

\* lines 160-161 without the logger.error call
ExceptSilent ==
    /\ pc = "except"
    /\ exc' = "none"
    /\ pc' = "while"
    /\ UNCHANGED <<counter, photos_size, now_time, clock, csv, files, log,
                   hist>>
    /\ UNCHANGED aux

\* lines 160-161: the exception is logged, control returns to line 96
Except ==
    /\ pc = "except"
    /\ log' = LogLine("error")
    /\ exc' = "none"
    /\ pc' = "while"
    /\ UNCHANGED <<counter, photos_size, now_time, clock, csv, files, hist>>
    /\ UNCHANGED aux

\* line 163
FinalLog ==
    /\ pc = "final"
    /\ log' = LogLine("ended")
    /\ pc' = "Ended"
    /\ UNCHANGED <<counter, photos_size, now_time, clock, csv, files, exc,
                   hist>>
    /\ UNCHANGED aux

\* the wall clock advances while the control path is computing
Tick ==
    /\ pc # "Ended"
    /\ clock < MaxClock
    /\ clock' = clock + 1
    /\ drift' = drift + 1
    /\ UNCHANGED <<pc, counter, photos_size, now_time, csv, files, log, exc,
                   passes, snap, lastCredit>>
    /\ UNCHANGED aux

Step ==
    \/ WhileEnter
    \/ WhileExit
    \/ SampleOK
    \/ SampleFail
    \/ AppendOK
    \/ AppendFail
    \/ IfSpace
    \/ ElseFull
    \/ CaptureOK
    \/ CaptureFail
    \/ StatOK
    \/ StatFail
    \/ UpdateCounter
    \/ Sleep
    \/ RefreshNow
    \/ Except
    \/ FinalLog

Next == Step \/ Tick

Spec == Init /\ [][Next]_vars

\* the control path always takes its next step, and the clock keeps
\* advancing (up to the bound of the model)
LiveSpec == Spec /\ WF_vars(Step) /\ WF_vars(Tick)

\* ------------------------------------------------------------------------
\* convert (lines 29-40), on a grid of 1/100 arc-second
\* ------------------------------------------------------------------------

\* the largest angle of the grid: 179.999 degrees
MaxAngle == 64799640

\* whole degrees and minutes the grid is laid around
GridDegrees == {0, 51, 179}

GridMinutes == {0, 7, 30, 59}

\* the angles convert is applied to
Angles ==
    { a \in { s * ((d * 60 + m) * 6000 + c) :
                   s \in {-1, 1}, d \in GridDegrees, m \in GridMinutes,
                   c \in 0..5999 } :
        a <= MaxAngle /\ -a <= MaxAngle }

Abs(x) == IF x < 0 THEN -x ELSE x

\* angle.signed_dms(): the sign and the unsigned degrees, minutes and
\* seconds (seconds in 1/100), by two divmod's of the arc-seconds
signed_dms(a) ==
    LET sign    == IF a < 0 THEN -1 ELSE IF a > 0 THEN 1 ELSE 0
        n       == Abs(a)
        minutes == n \div 6000
        seconds == n % 6000
    IN  <<sign, minutes \div 60, minutes % 60, seconds>>

\* the format ':.0f' applied to x100 / 100: the nearest integer; a value
\* half-way goes up or down with the binary digits of the float
Format0f(x100, up) ==
    LET q == x100 \div 100
        r == x100 % 100
    IN  IF r < 50 THEN q
        ELSE IF r > 50 THEN q + 1
        ELSE IF up THEN q + 1 ELSE q

\* lines 38-40 with the seconds formatted unscaled
convertUnscaled(a, up) ==
    LET dms == signed_dms(a)
    IN  << dms[1] < 0,
           << <<Format0f(dms[2] * 100, up), 1>>,
              <<Format0f(dms[3] * 100, up), 1>>,
              <<Format0f(dms[4], up), 10>> >> >>

\* lines 38-40: the boolean and the three rationals of the EXIF string
\* degrees/1,minutes/1,(seconds*10)/10
convert(a, up) ==
    LET dms == signed_dms(a)
    IN  << dms[1] < 0,
           << <<Format0f(dms[2] * 100, up), 1>>,
              <<Format0f(dms[3] * 100, up), 1>>,
              <<Format0f(dms[4] * 10, up), 10>> >> >>

\* convert is called on an angle of the grid
Convert ==
    /\ exif = <<>>
    /\ \E up \in BOOLEAN : exif' = convert(angle, up)
    /\ UNCHANGED <<pc, counter, photos_size, now_time, clock, csv, files,
                   log, exc, hist, lateFails, angle>>

ConvInit ==
    /\ LoopInit
    /\ angle \in Angles
    /\ exif = <<>>

ConvNext == Convert

ConvSpec == ConvInit /\ [][ConvNext]_vars

\* ------------------------------------------------------------------------
\* Claims
\* ------------------------------------------------------------------------

\* the run ceiling, start_time + timedelta(minutes=minutes_to_run)
Deadline == start_time + minutes_to_run

\* C1: the iteration counter starts at 1 and increases by exactly 1 on every
\* pass through the loop body, whether or not the pass raised: whenever the
\* loop condition is about to be tested, the counter is one more than the
\* number of passes made so far, so no counter value is used by two passes.
C1_CounterAdvancesEveryPass ==
    (pc = "while" /\ passes < MaxCount) => counter = passes + 1

\* C2: once the wall clock has passed start + run ceiling, the loop
\* eventually reaches Ended, for every pattern of per-iteration failures.
C2_EventuallyEnded ==
    (clock >= Deadline) ~> (pc = "Ended")

\* C3: two consecutive iteration starts are at least one sampling interval
\* apart, also when the first of them failed.
C3_IntervalBetweenStarts ==
    [][(pc = "while" /\ pc' = "sample" /\ passes > 0)
          => clock >= snap.clock + sampling_delta_secs]_vars

\* C4: an iteration in which the capture fails leaves no row for that
\* iteration in the sink; after the run the sink holds no more rows than
\* iterations that completed without an exception.
C4_NoRowForFailedCapture ==
    /\ (pc = "except" /\ exc = "capture") => Len(DataRows) = snap.rows
    /\ (pc = "Ended" /\ passes < MaxCount /\ log["error"] < MaxCount)
          => Len(DataRows) <= passes - log["error"]

\* C5: the sink is exactly one header row followed by data rows whose
\* Counter values are strictly increasing in file order.
C5_SinkStrictlyIncreasing ==
    /\ Len(csv) >= 1
    /\ csv[1] = header
    /\ \A i \in 2..Len(csv) : csv[i].kind = "data"
    /\ \A i \in 2..Len(csv), j \in 2..Len(csv) :
          i < j => csv[i].Counter < csv[j].Counter

\* C6: at termination the number of data rows in the sink is at most the
\* final counter value.
C6_RowCountAtMostCounter ==
    pc = "Ended" => Len(DataRows) <= counter

\* C7: the storage ceiling is soft by at most one capture: the total minus
\* the photo credited last is strictly below the ceiling, the total never
\* exceeds ceiling + largest capture - 1, and the total never decreases.
C7_SoftCeiling ==
    /\ [](photos_size - lastCredit < max_photos_size)
    /\ [](photos_size <= max_photos_size + MaxPhoto - 1)
    /\ [][photos_size' >= photos_size]_vars

\* C7 witness: the total has gone over the ceiling.
C7_Witness ==
    photos_size > max_photos_size

\* C8: an iteration that reaches the capture decision attempts a capture if
\* and only if the total is below the ceiling at that moment; once the
\* total has reached the ceiling no capture is in progress ever again.
C8_CaptureIffBelowCeiling ==
    /\ [][(pc = "decide" /\ pc' # "decide")
             => ((pc' = "capture") <=> (photos_size < max_photos_size))]_vars
    /\ [](photos_size >= max_photos_size => pc \notin {"capture", "stat"})

\* C8 witness: two captures were credited and a later iteration skipped its
\* capture.
C8_Witness ==
    /\ log["photo"] >= 2
    /\ log["full"] >= 1
    /\ pc = "update"

\* C9: an iteration that raises leaves the total unchanged; the total
\* changes only in the step after a successful capture whose size lookup
\* succeeds, and then by exactly the size of the file on disk.
C9_CreditOnlyOnSuccess ==
    /\ [](pc = "except" => photos_size = snap.size)
    /\ [][photos_size' # photos_size
             => /\ pc = "stat"
                /\ pc' = "update"
                /\ photos_size' = photos_size + files[counter]]_vars

\* C9 witness: the size lookup failed after a capture, in a run that had
\* already credited a photo.
C9_Witness ==
    /\ pc = "except"
    /\ exc = "stat"
    /\ snap.size > 0

\* a run so far without failures and without processing time
NoFault == /\ log["error"] = 0
           /\ exc = "none"
           /\ drift = 0

CeilDiv(a, b) == (a + b - 1) \div b

\* C10: without failures and with negligible processing time the passes
\* start at 0, interval, 2*interval, ..., and the loop ends at the first
\* refreshed time >= start + ceiling, after ceil(ceiling / interval) passes.
C10_IterationCount ==
    NoFault =>
        /\ passes >= 1 =>
              snap.clock = start_time + (passes - 1) * sampling_delta_secs
        /\ pc = "Ended" =>
              /\ passes = CeilDiv(minutes_to_run, sampling_delta_secs)
              /\ now_time >= Deadline
              /\ now_time - sampling_delta_secs < Deadline

\* C10 witness: a run without failures and processing time has ended.
C10_Witness ==
    pc = "Ended" /\ NoFault

\* the lines of the event log
LogTotal == log["photo"] + log["full"] + log["error"] + log["ended"]

\* no count of the log or of the passes has reached its bound
Unsaturated == /\ passes < MaxCount
               /\ \A k \in LogKinds : log[k] < MaxCount

\* the passes that have emitted their line: all but one still on its way
\* to the logging call
PassesLogged ==
    IF pc \in {"sample", "append", "decide", "capture", "stat", "except"}
    THEN passes - 1
    ELSE passes

\* C11: every pass through the loop body emits exactly one event-log line
\* (photo size, max size reached, or one error line) and one further line
\* is emitted at termination: the log holds one line per pass that has
\* got to its logging call, and passes + 1 lines at Ended.
C11_OneLinePerPass ==
    Unsaturated =>
        /\ LogTotal = PassesLogged + log["ended"]
        /\ log["ended"] = (IF pc = "Ended" THEN 1 ELSE 0)
        /\ pc = "Ended" => LogTotal = passes + 1

\* C11 witness: a run with a failed and a captured pass has ended, its
\* counts below their bound.
C11_Witness ==
    /\ pc = "Ended"
    /\ Unsaturated
    /\ log["error"] >= 1
    /\ log["photo"] >= 1

\* the EXIF rationals read back as an unsigned angle in 1/100 arc-second:
\* degrees + minutes / 60 + seconds / 3600
Decode(e) ==
    (e[1][1] * 360000) \div e[1][2]
        + (e[2][1] * 6000) \div e[2][2]
        + (e[3][1] * 100) \div e[3][2]

\* C12: decoding the triple produced by convert, negated when the boolean
\* is true, reproduces the angle within 1/36000 degree (10 units of the
\* grid), and the boolean is true exactly when the angle is negative.
C12_RoundTrip ==
    exif # <<>> =>
        LET dec    == Decode(exif[2])
            signed == IF exif[1] THEN -dec ELSE dec
        IN  /\ Abs(signed - angle) <= 10
            /\ exif[1] <=> (angle < 0)

\* C12 witness: -0.1278 degrees (7' 40.08" west or south) is converted to
\* true and 0/1,7/1,401/10.
C12_Witness ==
    /\ angle = -46008
    /\ exif = <<TRUE, << <<0, 1>>, <<7, 1>>, <<401, 10>> >> >>

\* C14: the fields of the encoded string stay inside the decomposition
\* ranges: degrees in 0..179, minutes in 0..59 and the seconds numerator
\* over 10 at most 599.
C14_FieldsInRange ==
    exif # <<>> =>
        /\ exif[2][1][1] \in 0..179
        /\ exif[2][2][1] \in 0..59
        /\ exif[2][3][1] \in 0..599

\* the control path is inside the try block, before the counter update
InTry == pc \in {"sample", "append", "decide", "capture", "stat"}

\* the current pass began with the storage budget used up
ExhaustedPass ==
    /\ snap.size >= max_photos_size
    /\ pc \in {"sample", "append", "decide", "update", "sleep", "refresh"}

\* C13: when the budget is exhausted, a pass whose sampling and append
\* succeed performs no capture and leaves the total and the photo files
\* unchanged, has its row in the sink at the capture decision, logs the
\* max-size notice, increments the counter, sleeps the interval and
\* refreshes the time.
C13_ExhaustedPassStillSamples ==
    /\ [][ExhaustedPass =>
              /\ files' = files
              /\ photos_size' = photos_size
              /\ pc' \notin {"capture", "stat"}]_vars
    /\ []((ExhaustedPass /\ pc = "decide") =>
              /\ Len(DataRows) = snap.rows + 1
              /\ csv[Len(csv)] = Row(counter))
    /\ [][(ExhaustedPass /\ pc = "decide" /\ pc' # pc) =>
              /\ pc' = "update"
              /\ log'["full"] = Bump(log["full"])
              /\ log'["photo"] = log["photo"]
              /\ log'["error"] = log["error"]
              /\ csv' = csv]_vars
    /\ [][(ExhaustedPass /\ pc = "update" /\ pc' # pc) =>
              /\ pc' = "sleep"
              /\ counter' = counter + 1]_vars
    /\ [][(ExhaustedPass /\ pc = "sleep" /\ pc' # pc) =>
              /\ pc' = "refresh"
              /\ clock' = clock + sampling_delta_secs]_vars
    /\ [][(ExhaustedPass /\ pc = "refresh" /\ pc' # pc) =>
              /\ pc' = "while"
              /\ now_time' = clock]_vars

\* C13 witness: a pass that began with the budget used up has slept.
C13_Witness ==
    /\ ExhaustedPass
    /\ pc = "refresh"
    /\ log["full"] >= 1

\* C15: now_time changes, and the loop condition turns false, only in the
\* refresh at the end of a pass that did not raise; a pass that raised
\* returns to a loop condition that is still true, with the counter it
\* started with; when the loop has been left, the last row of the sink is
\* that of the last pass and the counter is that row's Counter + 1.
C15_ExitOnlyAfterSuccess ==
    /\ [][now_time' # now_time => (pc = "refresh" /\ exc = "none")]_vars
    /\ [][(InTime /\ ~InTime') => pc = "refresh"]_vars
    /\ [][(InTry \/ pc = "except") => counter' = counter]_vars
    /\ [](pc = "except" => InTime)
    /\ [][(pc = "except" /\ pc' # pc) => (pc' = "while" /\ InTime')]_vars
    /\ [](pc \in {"final", "Ended"} =>
              /\ exc = "none"
              /\ Len(DataRows) >= 1
              /\ csv[Len(csv)] = Row(counter - 1))

\* C15 witness: a run in which a pass raised has ended.
C15_Witness ==
    /\ pc = "Ended"
    /\ log["error"] >= 1

\* the row of the pass in progress is in the sink and the counter update
\* of that pass is still to come
RowInFlight == IF pc \in {"decide", "capture", "stat", "update"} THEN 1 ELSE 0

\* C16: the sink never has a gap: every k with 1 <= k < counter has a data
\* row, there are at least counter - 1 data rows, and the rows in excess
\* of counter - 1 are those of the passes that raised after the append
\* (and the row of the pass in progress, until its counter update).
C16_NoGap ==
    /\ \A k \in 1..(counter - 1) :
          \E i \in 1..Len(DataRows) : DataRows[i].Counter = k
    /\ Len(DataRows) >= counter - 1
    /\ Len(DataRows) - (counter - 1) = lateFails + RowInFlight

\* C16 as stated: in every reachable state the sink has no gap, holds at
\* least counter - 1 data rows, and the rows in excess of counter - 1 are
\* exactly those written by passes that raised after the append.
C16_ExcessOnlyFromFailedPasses ==
    /\ \A k \in 1..(counter - 1) :
          \E i \in 1..Len(DataRows) : DataRows[i].Counter = k
    /\ Len(DataRows) >= counter - 1
    /\ Len(DataRows) - (counter - 1) = lateFails

\* C16 witness: two passes have completed and one has raised after its
\* append.
C16_Witness ==
    /\ pc = "while"
    /\ counter >= 3
    /\ lateFails >= 1

\* the total size of the photo files with a counter in S
RECURSIVE SumSizes(_)
SumSizes(S) ==
    IF S = {} THEN 0
    ELSE LET c == CHOOSE x \in S : TRUE
         IN  files[c] + SumSizes(S \ {c})

\* C17: at Ended the total equals the size of the photo files on disk;
\* between passes the total is the size of the files below the counter
\* (each credited once), and a file at the counter is an uncredited one
\* that the retry overwrites.
C17_TotalMatchesDisk ==
    /\ \A c \in DOMAIN files : c <= counter
    /\ pc \in {"while", "final", "Ended"} =>
          photos_size = SumSizes({c \in DOMAIN files : c < counter})
    /\ pc = "Ended" => photos_size = SumSizes(DOMAIN files)

\* C17 witness: a run has ended with photos on disk after a pass raised in
\* the capture or in the size lookup.
C17_Witness ==
    /\ pc = "Ended"
    /\ lateFails >= 1
    /\ photos_size > 0

====
